---- MODULE Spec2Model ----
(***************************************************************************)
(* A model of ludwig/utils/tf_utils.py (device initialisation) and of      *)
(* ludwig/marshmallow/marshmallow_schema_utils.py (the field builders and   *)
(* the schema documentation), with the tensor helpers, the GPU enumeration *)
(* worker and the weight buffers of tf_utils.py.                           *)
(*                                                                         *)
(* Python values are tagged records.  An optional value (None or x) is the *)
(* sequence <<>> or <<x>>.  A str is the sequence of its characters.       *)
(***************************************************************************)
EXTENDS Integers, Sequences, FiniteSets, TLC

VARIABLES
    TF_INIT_PARAMS,     \* tf_utils._TF_INIT_PARAMS: <<>> (None) or <<param_tuple>>
    gpu_devices,        \* number of devices tf.config.list_physical_devices('GPU') returns
    intra_op,           \* framework: intra-op parallelism threads, <<>> while never set
    inter_op,           \* framework: inter-op parallelism threads, <<>> while never set
    visible_devices,    \* framework: set of visible physical GPU indices
    memory_growth,      \* framework: device -> memory growth enabled
    logical_config,     \* framework: device -> <<>> or <<memory_limit>>
    tfRet,              \* the last call of initialize_tensorflow: its inputs and outcome
    firstCompleted,     \* history: param tuple of the first call that ran to line 116
    heap,               \* the caller's option lists: object id -> list of values
    fld,                \* the field descriptor last returned by a builder
    ret,                \* the last call into marshmallow_schema_utils and its outcome
    weights,            \* model -> its weights, one list of values per layer
    buffer,             \* <<>> or the bytes save_weights_to_buffer returned last
    wRet,               \* the last weight buffer call and its outcome
    seqRet,             \* the last call of a tensor helper: its inputs and its result
    parent_pc,          \* get_available_gpus: the statement the caller is at
    worker_pc,          \* the spawned worker process: the statement it is at
    mpq,                \* the worker's Queue buffer: objects put, not yet in the pipe
    pipe,               \* the Queue's pipe: the messages written and not yet read
    gpusRet,            \* get_available_gpus: calls made, workers spawned, last result
    schemaRet           \* the last call of generate_extra_json_schema_props

tfVars == <<TF_INIT_PARAMS, gpu_devices, intra_op, inter_op, visible_devices,
            memory_growth, logical_config, tfRet, firstCompleted>>
fieldVars == <<heap, fld, ret>>
weightVars == <<weights, buffer, wRet>>
seqVars == <<seqRet>>
gpuVars == <<parent_pc, worker_pc, mpq, pipe, gpusRet>>
schemaVars == <<schemaRet>>
auxVars == <<weights, buffer, wRet, seqRet, parent_pc, worker_pc, mpq, pipe, gpusRet,
             schemaRet>>
vars == <<TF_INIT_PARAMS, gpu_devices, intra_op, inter_op, visible_devices,
          memory_growth, logical_config, tfRet, firstCompleted, heap, fld, ret,
          weights, buffer, wRet, seqRet, parent_pc, worker_pc, mpq, pipe, gpusRet,
          schemaRet>>

None == <<>>
Some(x) == <<x>>

(***************************************************************************)
(* Bounds                                                                  *)
(***************************************************************************)
NumGpus == 2
MaxNum == 2
MaxOptions == 2
MaxDim == 2

(***************************************************************************)
(* tf_utils.py: initialize_tensorflow                                      *)
(***************************************************************************)

\* gpus as the caller passes it: None, an int, a list of ints or a str
GpusNone == [kind |-> "None", num |-> 0, lst |-> <<>>, chars |-> <<>>]
GpusInt(n) == [kind |-> "int", num |-> n, lst |-> <<>>, chars |-> <<>>]
GpusList(l) == [kind |-> "list", num |-> 0, lst |-> l, chars |-> <<>>]
GpusStr(s) == [kind |-> "str", num |-> 0, lst |-> <<>>, chars |-> s]

NoHorovod == [present |-> FALSE, local_size |-> 0, local_rank |-> 0]
Horovod(size, rank) == [present |-> TRUE, local_size |-> size, local_rank |-> rank]

\* str.strip(): leading and trailing blanks removed
RECURSIVE lstrip(_)
lstrip(s) == IF s # <<>> /\ Head(s) = " " THEN lstrip(Tail(s)) ELSE s
RECURSIVE rstrip(_)
rstrip(s) == IF s # <<>> /\ s[Len(s)] = " " THEN rstrip(SubSeq(s, 1, Len(s) - 1)) ELSE s
strip(s) == rstrip(lstrip(s))

\* str.split(","): the pieces between commas, empty pieces kept
RECURSIVE split(_, _)
split(s, cur) ==
    IF s = <<>> THEN <<cur>>
    ELSE IF Head(s) = "," THEN <<cur>> \o split(Tail(s), <<>>)
    ELSE split(Tail(s), Append(cur, Head(s)))

Digits == <<"0", "1", "2", "3", "4", "5", "6", "7", "8", "9">>
IsDigit(c) == \E d \in 1..10 : Digits[d] = c
DigitVal(c) == (CHOOSE d \in 1..10 : Digits[d] = c) - 1
RECURSIVE digitsVal(_, _)
digitsVal(s, acc) ==
    IF s = <<>> THEN acc ELSE digitsVal(Tail(s), 10 * acc + DigitVal(Head(s)))

\* int(piece): surrounding blanks and one sign allowed, then at least one digit;
\* <<>> stands for the ValueError int() raises
int(piece) ==
    LET t == strip(piece)
        neg == t # <<>> /\ Head(t) = "-"
        signed == t # <<>> /\ Head(t) \in {"-", "+"}
        ds == IF signed THEN Tail(t) ELSE t
    IN  IF ds # <<>> /\ \A k \in 1..Len(ds) : IsDigit(ds[k])
        THEN Some(IF neg THEN 0 - digitsVal(ds, 0) ELSE digitsVal(ds, 0))
        ELSE None

\* lines 78-87: the GPU list horovod stands in for an absent gpus
HorovodGpus(gpus, horovod, n) ==
    IF horovod.present /\ gpus.kind = "None"
    THEN IF 0 < n /\ n < horovod.local_size
         THEN GpusList(<<-1>>)
         ELSE GpusList(<<horovod.local_rank>>)
    ELSE gpus

\* lines 89-93: [raised |-> a ValueError was raised, gpus |-> the normalised value]
NormalizeGpus(gpus) ==
    IF gpus.kind = "int" THEN [gpus |-> GpusList(<<gpus.num>>), raised |-> FALSE]
    ELSE IF gpus.kind = "str"
    THEN LET pieces == split(strip(gpus.chars), <<>>)
             ok == \A k \in 1..Len(pieces) : int(pieces[k]) # None
         IN  IF ok
             THEN [gpus |-> GpusList([k \in 1..Len(pieces) |-> int(pieces[k])[1]]),
                   raised |-> FALSE]
             ELSE [gpus |-> gpus, raised |-> TRUE]
    ELSE [gpus |-> gpus, raised |-> FALSE]

\* truth value of the normalised gpus: None and the empty list are false
Truthy(gpus) == gpus.kind = "list" /\ gpus.lst # <<>>

\* gpu_devices[g]: Python indexing, negative indices count from the end
IndexOk(g, n) == 0 - n <= g /\ g < n
DeviceAt(g, n) == IF g < 0 THEN n + g ELSE g

\* a gate that is never closed: every call configures the framework again
AlreadyInitialized_Never(param_tuple) == FALSE

\* a gate that only stops a repeat of the recorded call
AlreadyInitialized_SameOnly(param_tuple) == TF_INIT_PARAMS = Some(param_tuple)

\* line 62: the gate that makes the configuration one-shot
AlreadyInitialized(param_tuple) == TF_INIT_PARAMS # None

\* lines 119-121, and the history of the first call that reached line 116
set_tf_init_params(params) ==
    /\ TF_INIT_PARAMS' = Some(params)
    /\ firstCompleted' = IF firstCompleted = None THEN Some(params) ELSE firstCompleted

\* a comparison of the requested configurations: gpus 0, [0] and "0" are equal
ParamsDiffer_Normalized(param_tuple) ==
    <<NormalizeGpus(TF_INIT_PARAMS[1][1]).gpus, TF_INIT_PARAMS[1][2],
      TF_INIT_PARAMS[1][3], TF_INIT_PARAMS[1][4]>>
        # <<NormalizeGpus(param_tuple[1]).gpus, param_tuple[2], param_tuple[3],
            param_tuple[4]>>

\* line 63: the recorded tuple against the tuple of this call, both as passed
ParamsDiffer(param_tuple) == TF_INIT_PARAMS[1] # param_tuple

\* a record written before the configuration steps, so that it survives a raise
propagate_exception_Recorded(param_tuple) == set_tf_init_params(param_tuple)

\* lines 93 and 113: the exception leaves the function before line 116
propagate_exception(param_tuple) == UNCHANGED <<TF_INIT_PARAMS, firstCompleted>>

Devices == 0..(gpu_devices - 1)

initialize_tensorflow(gpus0, gpu_memory_limit, allow_parallel_threads, horovod) ==
    LET use_horovod == horovod.present
        param_tuple == <<gpus0, gpu_memory_limit, allow_parallel_threads, use_horovod>>
        threads == IF allow_parallel_threads THEN 0 ELSE 1
        norm == NormalizeGpus(HorovodGpus(gpus0, horovod, gpu_devices))
        gpus == norm.gpus
        \* tf.config calls made: the two thread settings, then per device the
        \* memory growth and, with a limit, the logical device configuration
        per_device == gpu_devices * (IF gpu_memory_limit # None THEN 2 ELSE 1)
        call == [params |-> param_tuple, outcome |-> "configured", warned |-> FALSE,
                 config_calls |-> 2]
    IN  IF AlreadyInitialized(param_tuple)
        THEN \* lines 62-68: warn when the parameters differ, then return
             /\ tfRet' = [call EXCEPT !.outcome = "ignored",
                                      !.warned = ParamsDiffer(param_tuple),
                                      !.config_calls = 0]
             /\ UNCHANGED <<TF_INIT_PARAMS, gpu_devices, intra_op, inter_op,
                            visible_devices, memory_growth, logical_config,
                            firstCompleted>>
        ELSE \* lines 72-75
             /\ intra_op' = Some(threads)
             /\ inter_op' = Some(threads)
             /\ UNCHANGED gpu_devices
             /\ IF norm.raised
                THEN \* line 93: int() raises
                     /\ tfRet' = [call EXCEPT !.outcome = "ValueError"]
                     /\ propagate_exception(param_tuple)
                     /\ UNCHANGED <<visible_devices, memory_growth, logical_config>>
                ELSE IF Truthy(gpus) /\ Len(gpus.lst) = 1 /\ gpus.lst[1] = -1
                THEN \* lines 95-97
                     /\ visible_devices' = {}
                     /\ UNCHANGED <<memory_growth, logical_config>>
                     /\ set_tf_init_params(param_tuple)
                     /\ tfRet' = [call EXCEPT !.config_calls = 3]
                ELSE \* lines 102-108
                     /\ memory_growth' = [d \in Devices |-> TRUE]
                     /\ logical_config' =
                            IF gpu_memory_limit # None
                            THEN [d \in Devices |-> gpu_memory_limit]
                            ELSE logical_config
                     /\ IF Truthy(gpus) /\ gpu_devices > 0
                        THEN \* lines 112-114
                             IF \A k \in 1..Len(gpus.lst) : IndexOk(gpus.lst[k], gpu_devices)
                             THEN /\ visible_devices' =
                                        {DeviceAt(gpus.lst[k], gpu_devices) : k \in 1..Len(gpus.lst)}
                                  /\ set_tf_init_params(param_tuple)
                                  /\ tfRet' = [call EXCEPT
                                                  !.config_calls = 3 + per_device]
                             ELSE /\ tfRet' = [call EXCEPT
                                                  !.outcome = "IndexError",
                                                  !.config_calls = 2 + per_device]
                                  /\ propagate_exception(param_tuple)
                                  /\ UNCHANGED visible_devices
                        ELSE /\ UNCHANGED visible_devices
                             /\ set_tf_init_params(param_tuple)
                             /\ tfRet' = [call EXCEPT !.config_calls = 2 + per_device]

\* the inputs the calls are drawn from
GpuStrings ==
    { <<"0">>, <<" ", "0", ",", "1", " ">>, <<"-", "1">>, <<"x">>, <<>>, <<"0", ",">> }
GpuLists ==
    { <<>>, <<-1>>, <<0>>, <<0, NumGpus - 1>>, <<0, -1>>, <<NumGpus>> }
GpusPool ==
    {GpusNone} \cup {GpusInt(n) : n \in -1..NumGpus}
        \cup {GpusList(l) : l \in GpuLists} \cup {GpusStr(s) : s \in GpuStrings}
MemoryLimits == {None, Some(1024)}
HorovodPool == {NoHorovod, Horovod(1, 0), Horovod(NumGpus + 1, NumGpus)}

NoTfCall ==
    [params |-> <<GpusNone, None, TRUE, FALSE>>, outcome |-> "none", warned |-> FALSE,
     config_calls |-> 0]

TfInit ==
    /\ TF_INIT_PARAMS = None
    /\ gpu_devices \in 0..NumGpus
    /\ intra_op = None
    /\ inter_op = None
    /\ visible_devices = 0..(gpu_devices - 1)
    /\ memory_growth = [d \in 0..(gpu_devices - 1) |-> FALSE]
    /\ logical_config = [d \in 0..(gpu_devices - 1) |-> None]
    /\ tfRet = NoTfCall
    /\ firstCompleted = None

FieldIdle ==
    /\ heap = <<>>
    /\ fld = <<>>
    /\ ret = <<>>

WeightsIdle ==
    /\ weights = <<>>
    /\ buffer = <<>>
    /\ wRet = <<>>

SeqIdle == seqRet = <<>>

GpusIdle ==
    /\ parent_pc = "idle"
    /\ worker_pc = "none"
    /\ mpq = <<>>
    /\ pipe = <<>>
    /\ gpusRet = <<>>

SchemaIdle == schemaRet = <<>>

AuxIdle == WeightsIdle /\ SeqIdle /\ GpusIdle /\ SchemaIdle

CallInitializeTensorflow ==
    /\ \E gpus \in GpusPool, limit \in MemoryLimits, par \in BOOLEAN, hvd \in HorovodPool :
           initialize_tensorflow(gpus, limit, par, hvd)
    /\ UNCHANGED <<fieldVars, auxVars>>

InitTF == TfInit /\ FieldIdle /\ AuxIdle
NextTF == CallInitializeTensorflow
SpecTF == InitTF /\ [][NextTF]_vars

framework == <<intra_op, inter_op, visible_devices, memory_growth, logical_config>>
Raised(call) == call.outcome \in {"ValueError", "IndexError"}

\* C1: the device-initialization record is written at most once: once it is not
\* None it is the parameter tuple of the first call that completed, and no later
\* call, with equal or differing parameters, changes it.
C1_RecordWrittenOnce ==
    /\ [](TF_INIT_PARAMS # None => TF_INIT_PARAMS = firstCompleted)
    /\ [][TF_INIT_PARAMS # None => TF_INIT_PARAMS' = TF_INIT_PARAMS]_vars

\* a later call with differing parameters was made and the record is the first one
C1_Witness ==
    /\ TF_INIT_PARAMS # None
    /\ tfRet.outcome = "ignored"
    /\ tfRet.params # TF_INIT_PARAMS[1]
    /\ TF_INIT_PARAMS = firstCompleted

\* C2: a call made after a successful one with a GPU list that differs from the
\* recorded one does not raise, makes no tf.config call and leaves the visible
\* devices, the memory growth, the memory limits and the thread counts as they were.
C2_SecondCallLeavesFramework ==
    [][(TF_INIT_PARAMS # None /\ tfRet'.params[1] # TF_INIT_PARAMS[1][1])
          => (~Raised(tfRet') /\ framework' = framework /\ tfRet'.config_calls = 0)]_vars

\* the second call asked for other GPUs than the ones made visible by the first
C2_Witness ==
    /\ TF_INIT_PARAMS # None
    /\ tfRet.outcome = "ignored"
    /\ tfRet.params[1].kind = "list"
    /\ TF_INIT_PARAMS[1][1].kind = "list"
    /\ tfRet.params[1].lst # TF_INIT_PARAMS[1][1].lst
    /\ tfRet.config_calls = 0
    /\ visible_devices # {}

\* the configuration a parameter tuple asks for: the GPU list its gpus stand for
RequestedConfig(params) ==
    <<NormalizeGpus(params[1]).gpus, params[2], params[3], params[4]>>

\* C15 as stated: a call made after a successful initialisation warns exactly
\* when the configuration it requests differs from the recorded one, so that
\* gpus given as 0, [0] or "0" count as the same and stay silent.
C15_WarnsIffConfigurationDiffers ==
    tfRet.outcome = "ignored"
        => (tfRet.warned <=>
               RequestedConfig(tfRet.params) # RequestedConfig(TF_INIT_PARAMS[1]))

\* C15: a call made after a successful initialisation is ignored, and it warns
\* exactly when its parameter tuple, with gpus as passed, differs from the
\* recorded tuple; a call made before any successful one never warns.
C15_WarnsIffTupleDiffers ==
    [][IF TF_INIT_PARAMS # None
       THEN /\ tfRet'.outcome = "ignored"
            /\ tfRet'.warned <=> (tfRet'.params # TF_INIT_PARAMS[1])
       ELSE ~tfRet'.warned]_vars

\* GPU 0 was recorded as the int 0; the later call passes the list [0] and warns
C15_Witness ==
    /\ TF_INIT_PARAMS # None
    /\ tfRet.outcome = "ignored"
    /\ tfRet.warned
    /\ TF_INIT_PARAMS[1][1] = GpusInt(0)
    /\ tfRet.params[1] = GpusList(<<0>>)
    /\ RequestedConfig(tfRet.params) = RequestedConfig(TF_INIT_PARAMS[1])

\* C17: the record is written only by a call that ran every configuration step:
\* a call that raises while the record is None leaves it None although both
\* thread counts are set, and while the record is None no call is ignored, each
\* one starts the configuration again.
C17_RecordOnlyAfterFullConfiguration ==
    /\ [][(TF_INIT_PARAMS = None /\ Raised(tfRet'))
             => (TF_INIT_PARAMS' = None /\ intra_op' # None /\ inter_op' # None)]_vars
    /\ [][TF_INIT_PARAMS' # TF_INIT_PARAMS => tfRet'.outcome = "configured"]_vars
    /\ [][TF_INIT_PARAMS = None
             => (tfRet'.outcome # "ignored" /\ tfRet'.config_calls >= 2)]_vars

\* memory growth is on although the call that wrote the record disabled all GPUs
\* without touching it: an earlier call raised at the device lookup
C17_Witness ==
    /\ gpu_devices > 0
    /\ TF_INIT_PARAMS = Some(tfRet.params)
    /\ tfRet.outcome = "configured"
    /\ tfRet.config_calls = 3
    /\ visible_devices = {}
    /\ \A d \in 0..(gpu_devices - 1) : memory_growth[d]

(***************************************************************************)
(* marshmallow_schema_utils.py: Python values                              *)
(*                                                                         *)
(* A number carries twice its value in x2, so that halves are exact: the   *)
(* int 1 has x2 = 2, the float 1.5 has x2 = 3.                             *)
(***************************************************************************)
PyNone == [ty |-> "None", x2 |-> 0, txt |-> "", elems |-> <<>>]
PyInt(i) == [ty |-> "int", x2 |-> 2 * i, txt |-> "", elems |-> <<>>]
PyFloat(halves) == [ty |-> "float", x2 |-> halves, txt |-> "", elems |-> <<>>]
PyStr(str) == [ty |-> "str", x2 |-> 0, txt |-> str, elems |-> <<>>]
PyTuple(items) == [ty |-> "tuple", x2 |-> 0, txt |-> "", elems |-> items]
PyList(items) == [ty |-> "list", x2 |-> 0, txt |-> "", elems |-> items]

IsInt(v) == v.ty = "int"
IsFloat(v) == v.ty = "float"
IsStr(v) == v.ty = "str"
IsNumber(v) == IsInt(v) \/ IsFloat(v)

\* x in seq
In(x, seq) == \E k \in 1..Len(seq) : seq[k] = x
\* seq.count(x)
Count(x, seq) == Cardinality({k \in 1..Len(seq) : seq[k] = x})

(***************************************************************************)
(* The numeric range builders, lines 274-347                               *)
(***************************************************************************)

\* validate.Range(min, max, min_inclusive, max_inclusive)
Range(min, max, min_inclusive, max_inclusive) ==
    [min |-> min, max |-> max, min_inclusive |-> min_inclusive,
     max_inclusive |-> max_inclusive]

\* val(default): the validator applied to a value
RangeCall(val, v) ==
    IF ~IsNumber(v)
    THEN IF val.min = PyNone /\ val.max = PyNone THEN "ok" ELSE "TypeError"
    ELSE IF val.min # PyNone
            /\ (IF val.min_inclusive THEN v.x2 < val.min.x2 ELSE v.x2 <= val.min.x2)
    THEN "ValidationError"
    ELSE IF val.max # PyNone
            /\ (IF val.max_inclusive THEN v.x2 > val.max.x2 ELSE v.x2 >= val.max.x2)
    THEN "ValidationError"
    ELSE "ok"

\* lines 276-281 and alike: the default is checked unless it is None; whatever the
\* assert or the validator raise is turned into a ValidationError
DefaultCheck(val, default, typeOk) ==
    IF default # PyNone /\ (~typeOk \/ RangeCall(val, default) # "ok")
    THEN "ValidationError"
    ELSE "returned"

NoField ==
    [kind |-> "none", default |-> PyNone, allow_none |-> FALSE,
     validate |-> Range(PyNone, PyNone, TRUE, TRUE)]

\* field(metadata={"marshmallow_field": fields.X(validate=val, allow_none=default is
\* None, default=default)}, default=default)
NumericField(kind, val, default) ==
    [kind |-> kind, default |-> default, allow_none |-> (default = PyNone),
     validate |-> val]

NumericBuilder(kind, val, default, typeOk) ==
    LET outcome == DefaultCheck(val, default, typeOk)
    IN  [outcome |-> outcome,
         field |-> IF outcome = "returned" THEN NumericField(kind, val, default)
                   ELSE NoField]

\* a validator that lets zero through
PositiveIntegerVal_Zero == Range(PyInt(0), PyNone, TRUE, TRUE)
\* line 275
PositiveIntegerVal == Range(PyInt(1), PyNone, TRUE, TRUE)
\* lines 291 and 323
NonNegativeVal == Range(PyInt(0), PyNone, TRUE, TRUE)

PositiveInteger(default) ==
    NumericBuilder("Integer", PositiveIntegerVal, default, IsInt(default))
NonNegativeInteger(default) ==
    NumericBuilder("Integer", NonNegativeVal, default, IsInt(default))
IntegerRange(default, kwargs) ==
    NumericBuilder("Integer", kwargs, default, IsInt(default))
NonNegativeFloat(default) ==
    NumericBuilder("Float", NonNegativeVal, default, IsFloat(default) \/ IsInt(default))
FloatRange(default, kwargs) ==
    NumericBuilder("Float", kwargs, default, IsFloat(default) \/ IsInt(default))

\* the values the calls are drawn from
Ints == {PyInt(i) : i \in (0 - MaxNum)..MaxNum}
Floats == {PyFloat(h) : h \in (0 - 2 * MaxNum)..(2 * MaxNum)}
Numbers == Ints \cup Floats
Defaults == {PyNone, PyStr("l1")} \cup Numbers
RangeLimits == {PyNone, PyInt(0 - 1), PyInt(0), PyFloat(1), PyInt(MaxNum - 1)}
RangeKwargs ==
    {Range(lo, hi, li, hi_incl) :
        lo \in RangeLimits, hi \in RangeLimits, li \in BOOLEAN, hi_incl \in BOOLEAN}
NoKwargs == Range(PyNone, PyNone, TRUE, TRUE)

\* a call of a builder: what the caller passed and what came back
RangeReturn(op, default, kwargs, result) ==
    /\ ret' = Some([outcome |-> result.outcome, default |-> default, kwargs |-> kwargs,
                    op |-> op])
    /\ fld' = IF result.outcome = "returned" THEN Some(result.field) ELSE None
    /\ UNCHANGED heap
    /\ UNCHANGED <<tfVars, auxVars>>

CallPositiveInteger ==
    \E default \in Defaults :
        RangeReturn("PositiveInteger", default, NoKwargs, PositiveInteger(default))
CallNonNegativeInteger ==
    \E default \in Defaults :
        RangeReturn("NonNegativeInteger", default, NoKwargs, NonNegativeInteger(default))
CallIntegerRange ==
    \E default \in Defaults, kwargs \in RangeKwargs :
        RangeReturn("IntegerRange", default, kwargs, IntegerRange(default, kwargs))
CallNonNegativeFloat ==
    \E default \in Defaults :
        RangeReturn("NonNegativeFloat", default, NoKwargs, NonNegativeFloat(default))
CallFloatRange ==
    \E default \in Defaults, kwargs \in RangeKwargs :
        RangeReturn("FloatRange", default, kwargs, FloatRange(default, kwargs))

TfIdle ==
    /\ TF_INIT_PARAMS = None
    /\ gpu_devices = 0
    /\ intra_op = None
    /\ inter_op = None
    /\ visible_devices = {}
    /\ memory_growth = <<>>
    /\ logical_config = <<>>
    /\ tfRet = NoTfCall
    /\ firstCompleted = None

InitRange == TfIdle /\ FieldIdle /\ AuxIdle
NextRange ==
    \/ CallPositiveInteger
    \/ CallNonNegativeInteger
    \/ CallIntegerRange
    \/ CallNonNegativeFloat
    \/ CallFloatRange
SpecRange == InitRange /\ [][NextRange]_vars

IntegerBuilders == {"PositiveInteger", "NonNegativeInteger", "IntegerRange"}

\* the bound each builder declares: the kind of number its name and signature give,
\* and the limits it was built with
InDeclaredBound(op, kwargs, v) ==
    /\ IF op \in IntegerBuilders THEN IsInt(v) ELSE IsNumber(v)
    /\ CASE op = "PositiveInteger" -> v.x2 >= 2
         [] op \in {"NonNegativeInteger", "NonNegativeFloat"} -> v.x2 >= 0
         [] OTHER ->
              /\ kwargs.min # PyNone =>
                    IF kwargs.min_inclusive THEN kwargs.min.x2 <= v.x2
                    ELSE kwargs.min.x2 < v.x2
              /\ kwargs.max # PyNone =>
                    IF kwargs.max_inclusive THEN v.x2 <= kwargs.max.x2
                    ELSE v.x2 < kwargs.max.x2

\* C3: every numeric-range builder raises ValidationError for a default that is not
\* None and lies outside its declared bound, and for a default inside the bound it
\* returns a descriptor whose default is the supplied value.
C3_RangeBuildersCheckDefault ==
    ret # None =>
        LET call == ret[1]
        IN  /\ (call.default # PyNone
                  /\ ~InDeclaredBound(call.op, call.kwargs, call.default))
                => (call.outcome = "ValidationError" /\ fld = None)
            /\ InDeclaredBound(call.op, call.kwargs, call.default)
                => (call.outcome = "returned" /\ fld # None
                      /\ fld[1].default = call.default)

\* a builder with both limits set returned a descriptor for a default on its upper
\* limit
C3_Witness ==
    /\ ret # None
    /\ ret[1].op = "FloatRange"
    /\ ret[1].kwargs.min # PyNone
    /\ ret[1].kwargs.max # PyNone
    /\ ret[1].kwargs.max_inclusive
    /\ ret[1].default # PyNone
    /\ ret[1].default.x2 = ret[1].kwargs.max.x2
    /\ ret[1].outcome = "returned"
    /\ fld[1].default = ret[1].default

(***************************************************************************)
(* The enumeration builders, lines 235-271                                 *)
(*                                                                         *)
(* heap is the list object the caller passes as options.  StringOptions    *)
(* appends to that object in place, and the validator of the field it      *)
(* returns keeps a reference to it.                                        *)
(***************************************************************************)

\* an emptiness test that lets every list through
NoOptions_Never(options) == FALSE
\* line 254
NoOptions(options) == Len(options) <= 0

\* the null sentinel appended whether or not the list holds it
ResolveOptions_Always(options, nullable) ==
    IF nullable THEN Append(options, PyNone) ELSE options
\* lines 258-259: options += [None]
ResolveOptions(options, nullable) ==
    IF nullable /\ ~In(PyNone, options) THEN Append(options, PyNone) ELSE options

\* fields.String(validate=validate.OneOf(options), allow_none=nullable, default=default);
\* aliased: the validator's choices are the caller's list object
StringField(default, nullable, aliased, choices) ==
    [kind |-> "String", default |-> default, allow_none |-> nullable,
     aliased |-> aliased, choices |-> choices]
NoStringField == StringField(PyNone, FALSE, FALSE, <<>>)

\* lines 251-271; options is the list as the call leaves it
StringOptions(options, default, nullable, aliased) ==
    IF NoOptions(options)
    THEN [outcome |-> "ValidationError", field |-> NoStringField, options |-> options]
    ELSE IF default # PyNone /\ ~IsStr(default)
    THEN [outcome |-> "ValidationError", field |-> NoStringField, options |-> options]
    ELSE LET resolved == ResolveOptions(options, nullable)
         IN  IF ~In(default, resolved)
             THEN [outcome |-> "ValidationError", field |-> NoStringField,
                   options |-> resolved]
             ELSE [outcome |-> "returned",
                   field |-> StringField(default, nullable, aliased,
                                         IF aliased THEN <<>> ELSE resolved),
                   options |-> resolved]

\* lines 235-236: list(initializer_registry.keys()) is a new list on every call
InitializerOptions(initializer_registry, default) ==
    StringOptions(initializer_registry, default, TRUE, FALSE)
\* lines 239-244
ReductionOptions(reduce_mode_registry, default) ==
    StringOptions(reduce_mode_registry, default, TRUE, FALSE)
\* lines 247-248
RegularizerOptions(default, nullable) ==
    StringOptions(<<PyStr("l1"), PyStr("l2"), PyStr("l1_l2")>>, default, nullable, FALSE)

\* the option list the validator of field f checks against
Choices(f) == IF f.aliased THEN heap ELSE f.choices

\* the lists and defaults the calls are drawn from
OptionValues == {PyStr("l1"), PyStr("l2"), PyNone}
RECURSIVE ListsUpTo(_, _)
ListsUpTo(values, n) ==
    IF n = 0 THEN {<<>>}
    ELSE LET shorter == ListsUpTo(values, n - 1)
         IN  shorter \cup {Append(l, v) : l \in shorter, v \in values}
OptionLists == ListsUpTo(OptionValues, MaxOptions)
\* the keys of a dict are pairwise different
RegistryKeys == {l \in OptionLists : \A v \in OptionValues : Count(v, l) <= 1}
OptionDefaults == {PyNone, PyStr("l1"), PyStr("l1_l2"), PyStr("zz"), PyInt(1)}

OptionsReturn(op, options_in, default, nullable, result) ==
    /\ ret' = Some([outcome |-> result.outcome, default |-> default, op |-> op,
                    nullable |-> nullable, options_in |-> options_in])
    /\ fld' = IF result.outcome = "returned" THEN Some(result.field) ELSE None
    /\ UNCHANGED <<tfVars, auxVars>>

CallStringOptions ==
    \E default \in OptionDefaults, nullable \in BOOLEAN :
        LET result == StringOptions(heap, default, nullable, TRUE)
        IN  /\ heap' = result.options
            /\ OptionsReturn("StringOptions", heap, default, nullable, result)
CallInitializerOptions ==
    \E keys \in RegistryKeys, default \in OptionDefaults :
        /\ OptionsReturn("InitializerOptions", keys, default, TRUE,
                         InitializerOptions(keys, default))
        /\ UNCHANGED heap
CallReductionOptions ==
    \E keys \in RegistryKeys, default \in OptionDefaults :
        /\ OptionsReturn("ReductionOptions", keys, default, TRUE,
                         ReductionOptions(keys, default))
        /\ UNCHANGED heap
CallRegularizerOptions ==
    \E default \in OptionDefaults, nullable \in BOOLEAN :
        /\ OptionsReturn("RegularizerOptions",
                         <<PyStr("l1"), PyStr("l2"), PyStr("l1_l2")>>, default, nullable,
                         RegularizerOptions(default, nullable))
        /\ UNCHANGED heap

InitOptions ==
    /\ TfIdle
    /\ AuxIdle
    /\ heap \in OptionLists
    /\ fld = None
    /\ ret = None
NextOptions ==
    \/ CallStringOptions
    \/ CallInitializerOptions
    \/ CallReductionOptions
    \/ CallRegularizerOptions
SpecOptions == InitOptions /\ [][NextOptions]_vars

\* the option set the claim calls resolved: the options, and None if nullable
ResolvedSet(options, nullable) ==
    {options[k] : k \in 1..Len(options)} \cup (IF nullable THEN {PyNone} ELSE {})

\* C4: StringOptions raises ValidationError when options is empty, when the default
\* is neither None nor a string, or when the default is not in the resolved option
\* set; in every other case it returns a descriptor whose default is the supplied one.
C4_StringOptionsChecks ==
    ret # None =>
        LET call == ret[1]
            mustRaise ==
                \/ call.options_in = <<>>
                \/ call.default # PyNone /\ ~IsStr(call.default)
                \/ call.default \notin ResolvedSet(call.options_in, call.nullable)
        IN  IF mustRaise
            THEN call.outcome = "ValidationError" /\ fld = None
            ELSE call.outcome = "returned" /\ fld # None /\ fld[1].default = call.default

\* StringOptions([], default=None) was called and raised
C4_Witness ==
    /\ ret # None
    /\ ret[1].op = "StringOptions"
    /\ ret[1].options_in = <<>>
    /\ ret[1].default = PyNone
    /\ ret[1].nullable
    /\ ret[1].outcome = "ValidationError"

\* C5 as claimed: the option list of every field built with nullable=True holds
\* None exactly once.
C5_NullExactlyOnce ==
    (fld # None /\ fld[1].allow_none) => Count(PyNone, Choices(fld[1])) = 1

\* C5: the option list of every field built with nullable=True holds None at least
\* once, and exactly once when the list passed in held it at most once, as the lists
\* of the wrappers do.
C5_NullOnceUnlessDuplicated ==
    (fld # None /\ fld[1].allow_none) =>
        /\ Count(PyNone, Choices(fld[1])) >= 1
        /\ Count(PyNone, ret[1].options_in) <= 1 => Count(PyNone, Choices(fld[1])) = 1
        /\ ret[1].op # "StringOptions" => Count(PyNone, Choices(fld[1])) = 1

\* a nullable field was built from the caller's list, which held None already
C5_Witness ==
    /\ fld # None
    /\ fld[1].allow_none
    /\ fld[1].aliased
    /\ Count(PyNone, ret[1].options_in) = 1
    /\ Count(PyNone, Choices(fld[1])) = 1

(***************************************************************************)
(* The composite builder, lines 498-593                                    *)
(***************************************************************************)

\* the numeric limits of a composite field
Limits(min, max, min_exclusive, max_exclusive) ==
    [min |-> min, max |-> max, min_exclusive |-> min_exclusive,
     max_exclusive |-> max_exclusive]

\* lines 590-593: the descriptor; options is the caller's list object (heap), the
\* other arguments are captured by the closure
CompositeField(nullable, default, is_integer, limits) ==
    [kind |-> "IntegerOrStringOptionsField", default |-> default,
     allow_none |-> nullable, nullable |-> nullable, is_integer |-> is_integer,
     limits |-> limits]

\* lines 514-593: no argument is checked, a descriptor is returned in every case
NumericOrStringOptionsField(nullable, default, is_integer, limits) ==
    [outcome |-> "returned",
     field |-> CompositeField(nullable, default, is_integer, limits)]

\* lines 498-511: is_integer = True, then NumericOrStringOptionsField(**locals())
IntegerOrStringOptionsField(nullable, default, is_integer, limits) ==
    NumericOrStringOptionsField(nullable, default, TRUE, limits)

\* line 529
NumericBranch(is_integer, value) == (is_integer /\ IsInt(value)) \/ IsFloat(value)

\* lines 531-534
OutOfRange(limits, value) ==
    \/ limits.min # PyNone /\ value.x2 < limits.min.x2
    \/ limits.min_exclusive # PyNone /\ value.x2 <= limits.min_exclusive.x2
    \/ limits.max # PyNone /\ value.x2 > limits.max.x2
    \/ limits.max_exclusive # PyNone /\ value.x2 >= limits.max_exclusive.x2

\* line 536: the right-hand side "(", (min_exclusive if ... else "["), min
ErrMinTuple(limits) ==
    <<"(", IF limits.min_exclusive # PyNone THEN "min_exclusive" ELSE "[", "min">>
\* lines 536-538: the tuple is unpacked into err_min_r, err_min_n; with another
\* number of elements Python raises ValueError before line 538 is reached
RangeError(limits) ==
    IF Len(ErrMinTuple(limits)) = 2 THEN "ValidationError" ELSE "ValueError"

\* lines 527-547: [outcome, result]; result is the value returned
deserialize(f, options, value) ==
    IF NumericBranch(f.is_integer, value)
    THEN IF OutOfRange(f.limits, value)
         THEN [outcome |-> RangeError(f.limits), result |-> PyNone]
         ELSE [outcome |-> "returned", result |-> value]
    ELSE IF IsStr(value)
    THEN IF ~In(value, options)
         THEN [outcome |-> "ValidationError", result |-> PyNone]
         ELSE [outcome |-> "returned", result |-> value]
    ELSE [outcome |-> "ValidationError", result |-> PyNone]

\* a check that forgets that the field may be nullable
NullContradiction_IgnoresNullable(options, allow_none) == In(PyNone, options)
\* line 555
NullContradiction(options, allow_none) == In(PyNone, options) /\ ~allow_none

\* list.remove(x): the first occurrence is removed
RECURSIVE Remove(_, _)
Remove(seq, x) ==
    IF seq = <<>> THEN <<>>
    ELSE IF Head(seq) = x THEN Tail(seq)
    ELSE <<Head(seq)>> \o Remove(Tail(seq), x)

\* lines 549-588: [outcome, options, types, enum]; options is the caller's list as
\* the call leaves it, types and enum describe the oneOf schema returned
jsonschema_type_mapping(f, options) ==
    IF NullContradiction(options, f.allow_none)
    THEN [outcome |-> "AssertionError", options |-> options, types |-> <<>>,
          enum |-> <<>>]
    ELSE LET numeric_type == IF f.is_integer THEN "integer" ELSE "number"
             stripped == IF In(PyNone, options) THEN Remove(options, PyNone)
                         ELSE options
         IN  [outcome |-> "returned", options |-> stripped,
              types |-> <<numeric_type, "string">>
                            \o (IF f.nullable THEN <<"null">> ELSE <<>>),
              enum |-> stripped]

\* the arguments and values the calls are drawn from
NoLimits == Limits(PyNone, PyNone, PyNone, PyNone)
CompositeLimits ==
    { NoLimits,
      Limits(PyInt(0), PyInt(MaxNum - 1), PyNone, PyNone),
      Limits(PyNone, PyNone, PyInt(0), PyInt(MaxNum - 1)),
      Limits(PyInt(0), PyNone, PyNone, PyInt(MaxNum - 1)),
      Limits(PyNone, PyInt(MaxNum - 1), PyInt(0), PyNone),
      Limits(PyInt(0), PyInt(MaxNum - 1), PyInt(0), PyInt(MaxNum - 1)) }
CompositeDefaults == {PyNone, PyInt(1), PyStr("l1"), PyStr("zz")}
LoadedValues ==
    {PyInt(i) : i \in (0 - 1)..MaxNum} \cup {PyFloat(h) : h \in (0 - 1)..(2 * MaxNum)}
        \cup {PyNone, PyStr("l1"), PyStr("l2"), PyStr("zz"), PyList(<<PyStr("l1")>>)}

CompositeReturn(op, options_in, value, outcome, result) ==
    /\ ret' = Some([outcome |-> outcome, op |-> op, result |-> result,
                    options_in |-> options_in, value |-> value])
    /\ UNCHANGED <<tfVars, auxVars>>

CallNumericOrStringOptionsField ==
    \E nullable \in BOOLEAN, default \in CompositeDefaults, is_integer \in BOOLEAN,
       limits \in CompositeLimits :
        LET built == NumericOrStringOptionsField(nullable, default, is_integer, limits)
        IN  /\ fld' = Some(built.field)
            /\ CompositeReturn("NumericOrStringOptionsField", heap, default,
                               built.outcome, PyNone)
            /\ UNCHANGED heap
CallIntegerOrStringOptionsField ==
    \E nullable \in BOOLEAN, default \in CompositeDefaults, is_integer \in BOOLEAN,
       limits \in CompositeLimits :
        LET built == IntegerOrStringOptionsField(nullable, default, is_integer, limits)
        IN  /\ fld' = Some(built.field)
            /\ CompositeReturn("IntegerOrStringOptionsField", heap, default,
                               built.outcome, PyNone)
            /\ UNCHANGED heap
CallDeserialize ==
    /\ fld # None
    /\ \E value \in LoadedValues :
        LET loaded == deserialize(fld[1], heap, value)
        IN  CompositeReturn("_deserialize", heap, value, loaded.outcome, loaded.result)
    /\ UNCHANGED <<heap, fld>>
CallJsonschemaTypeMapping ==
    /\ fld # None
    /\ LET mapped == jsonschema_type_mapping(fld[1], heap)
       IN  /\ heap' = mapped.options
           /\ CompositeReturn("_jsonschema_type_mapping", heap, PyNone, mapped.outcome,
                              PyList(mapped.enum))
    /\ UNCHANGED fld

InitComposite ==
    /\ TfIdle
    /\ AuxIdle
    /\ heap \in OptionLists
    /\ fld = None
    /\ ret = None
NextComposite ==
    \/ CallNumericOrStringOptionsField
    \/ CallIntegerOrStringOptionsField
    \/ CallDeserialize
    \/ CallJsonschemaTypeMapping
SpecComposite == InitComposite /\ [][NextComposite]_vars

\* C6 as claimed: the default of every descriptor a builder returns is None or a
\* value the descriptor's own deserialization accepts.
C6_DefaultIsAccepted ==
    (fld # None /\ fld[1].default # PyNone)
        => deserialize(fld[1], heap, fld[1].default).outcome = "returned"

\* C7 as claimed: whatever a builder, a deserialization or a schema mapping rejects,
\* it rejects with a ValidationError.
C7_OnlyValidationError ==
    ret # None => ret[1].outcome \in {"returned", "ValidationError"}

ClaimedAccept(f, options, value) ==
    \/ /\ IF f.is_integer THEN IsInt(value) ELSE IsNumber(value)
       /\ f.limits.min # PyNone => f.limits.min.x2 <= value.x2
       /\ f.limits.min_exclusive # PyNone => f.limits.min_exclusive.x2 < value.x2
       /\ f.limits.max # PyNone => value.x2 <= f.limits.max.x2
       /\ f.limits.max_exclusive # PyNone => value.x2 < f.limits.max_exclusive.x2
    \/ IsStr(value) /\ In(value, options)

\* C9 as claimed: the deserialization returns the value unchanged exactly when it is
\* a number of the declared kind within the limits or a string among the options,
\* and rejects every other value.
C9_AcceptsExactlyDeclared ==
    (ret # None /\ ret[1].op = "_deserialize") =>
        IF ClaimedAccept(fld[1], ret[1].options_in, ret[1].value)
        THEN ret[1].outcome = "returned" /\ ret[1].result = ret[1].value
        ELSE ret[1].outcome # "returned"

(***************************************************************************)
(* The tuple-of-floats builder, lines 454-495                              *)
(***************************************************************************)

\* a bound check that forgets the upper limit
WithinRange_NoMax(b, min, max) == min.x2 <= b.x2
\* line 476: min <= b <= max
WithinRange(b, min, max) == min.x2 <= b.x2 /\ b.x2 <= max.x2

\* lines 474-481: "returned" (the data) or "ValidationError"
validate_range(data, min, max) ==
    IF data.ty = "tuple" /\ \A k \in 1..Len(data.elems) : IsNumber(data.elems[k])
    THEN IF \A k \in 1..Len(data.elems) : WithinRange(data.elems[k], min, max)
         THEN "returned"
         ELSE "ValidationError"
    ELSE "ValidationError"

\* lines 488-495: the descriptor; N, min and max are captured by the validator
TupleField(N, default, min, max) ==
    [kind |-> "FloatTupleMarshmallowField", min |-> min, max |-> max,
     default |-> default, allow_none |-> FALSE, N |-> N]

\* lines 454-495
FloatRangeTupleDataclassField(N, default, min, max) ==
    IF N # Len(default.elems)
    THEN "ValidationError"
    ELSE IF validate_range(default, min, max) # "returned"
    THEN "ValidationError"
    ELSE "returned"

\* the arguments and tuples the calls are drawn from
TupleElems == {PyInt(0), PyFloat(1), PyFloat(3), PyStr("x")}
TupleValues ==
    {PyTuple(l) : l \in ListsUpTo(TupleElems, MaxDim)}
        \cup {PyList(l) : l \in ListsUpTo({PyFloat(1)}, MaxDim)}
TupleMins == {PyInt(0), PyFloat(1)}
TupleMaxs == {PyInt(1), PyInt(MaxNum)}

TupleReturn(op, N, value, min, max, outcome) ==
    /\ ret' = Some([outcome |-> outcome, min |-> min, max |-> max, op |-> op,
                    value |-> value, N |-> N])
    /\ UNCHANGED heap
    /\ UNCHANGED <<tfVars, auxVars>>

CallFloatRangeTupleDataclassField ==
    \E N \in 0..MaxDim, default \in TupleValues, min \in TupleMins, max \in TupleMaxs :
        LET outcome == FloatRangeTupleDataclassField(N, default, min, max)
        IN  /\ fld' = IF outcome = "returned"
                      THEN Some(TupleField(N, default, min, max))
                      ELSE None
            /\ TupleReturn("FloatRangeTupleDataclassField", N, default, min, max, outcome)
CallValidateRange ==
    /\ fld # None
    /\ \E data \in TupleValues :
        TupleReturn("validate_range", fld[1].N, data, fld[1].min, fld[1].max,
                    validate_range(data, fld[1].min, fld[1].max))
    /\ UNCHANGED fld

InitTuple == TfIdle /\ FieldIdle /\ AuxIdle
NextTuple ==
    \/ CallFloatRangeTupleDataclassField
    \/ CallValidateRange
SpecTuple == InitTuple /\ [][NextTuple]_vars

IsNumericTuple(v) ==
    v.ty = "tuple" /\ \A k \in 1..Len(v.elems) : v.elems[k].ty \in {"int", "float"}
AllInClosedRange(v, min, max) ==
    \A k \in 1..Len(v.elems) : min.x2 <= v.elems[k].x2 /\ v.elems[k].x2 <= max.x2

MaxWeight == 1

\* line 28: ludwig.globals.MODEL_WEIGHTS_FILE_NAME
MODEL_WEIGHTS_FILE_NAME == <<"model_weights">>

\* the layer sizes every model of the architecture has
Architecture == <<1, 2>>
Models == {1, 2}

RECURSIVE Flatten(_)
Flatten(layers) ==
    IF layers = <<>> THEN <<>> ELSE Head(layers) \o Flatten(Tail(layers))

RECURSIVE Offset(_, _)
Offset(sizes, k) == IF k = 0 THEN 0 ELSE sizes[k] + Offset(sizes, k - 1)

Unflatten(data, sizes) ==
    [k \in 1..Len(sizes) |->
        SubSeq(data, Offset(sizes, k - 1) + 1, Offset(sizes, k))]

IndexFile(path) == <<path[1], path[2] \o <<".index">>>>
DataFile(path) == <<path[1], path[2] \o <<".data-00000-of-00001">>>>

\* line 155, model.save_weights(path): the checkpoint files written next to path
save_weights(layers, path) ==
    (IndexFile(path) :> [k \in 1..Len(layers) |-> Len(layers[k])])
        @@ (DataFile(path) :> Flatten(layers))
        @@ (<<path[1], <<"checkpoint">>>> :> path[2])

\* line 157, shutil.make_archive(base_name, 'zip', root_dir): the archive file
\* base_name.zip holding the files of root_dir under their names in root_dir
make_archive(fs, base_name, root_dir) ==
    LET members == {p[2] : p \in {q \in DOMAIN fs : q[1] = root_dir}}
    IN  <<base_name[1], base_name[2] \o <<".zip">>>>
            :> [member \in members |-> fs[<<root_dir, member>>]]

\* line 165, ZipFile.extractall(path): every member written under path
extractall(archive, path) ==
    [p \in {<<path, member>> : member \in DOMAIN archive} |-> archive[p[2]]]

\* line 167, model.load_weights(path): the checkpoint at path read into a model
\* with the given layer sizes
load_weights(fs, path, sizes) ==
    IF ~({IndexFile(path), DataFile(path)} \subseteq DOMAIN fs)
    THEN [outcome |-> "NotFoundError", layers |-> <<>>]
    ELSE IF fs[IndexFile(path)] # sizes
    THEN [outcome |-> "ValueError", layers |-> <<>>]
    ELSE [outcome |-> "loaded",
          layers |-> Unflatten(fs[DataFile(path)], fs[IndexFile(path)])]

\* line 154
save_weights_path(tmpdir) == <<tmpdir, MODEL_WEIGHTS_FILE_NAME>>

\* a load path that names the archive instead of the checkpoint
load_weights_path_Archive(tmpdir) == <<tmpdir, MODEL_WEIGHTS_FILE_NAME \o <<".zip">>>>

\* line 166
load_weights_path(tmpdir) == <<tmpdir, MODEL_WEIGHTS_FILE_NAME>>

\* lines 152-159
save_weights_to_buffer(layers) ==
    LET saved == save_weights(layers, save_weights_path("tmpdir"))
        zipped == make_archive(saved, <<"zipdir", MODEL_WEIGHTS_FILE_NAME>>, "tmpdir")
        opened == <<"zipdir", MODEL_WEIGHTS_FILE_NAME \o <<".zip">>>>
    IN  IF opened \in DOMAIN zipped
        THEN [outcome |-> "returned", bytes |-> Some(zipped[opened])]
        ELSE [outcome |-> "FileNotFoundError", bytes |-> None]

\* lines 162-167
load_weights_from_buffer(sizes, buf) ==
    load_weights(extractall(buf, "tmpdir"), load_weights_path("tmpdir"), sizes)

Layer(size) == [1..size -> 0..MaxWeight]
WeightValues ==
    {w \in [1..Len(Architecture) -> UNION {Layer(Architecture[k]) : k \in 1..Len(Architecture)}] :
        \A k \in 1..Len(Architecture) : Len(w[k]) = Architecture[k]}

NoWeightCall == [outcome |-> "none", op |-> "none", saved |-> None, model |-> 0]

CallSaveWeightsToBuffer ==
    /\ \E model \in Models :
           LET call == save_weights_to_buffer(weights[model])
           IN  /\ buffer' = call.bytes
               /\ wRet' = [outcome |-> call.outcome, op |-> "save",
                           saved |-> Some(weights[model]), model |-> model]
    /\ UNCHANGED <<weights, tfVars, fieldVars, seqVars, gpuVars, schemaVars>>

CallLoadWeightsFromBuffer ==
    /\ buffer # None
    /\ \E model \in Models :
           LET call == load_weights_from_buffer(
                           [k \in 1..Len(weights[model]) |-> Len(weights[model][k])],
                           buffer[1])
           IN  /\ weights' = IF call.outcome = "loaded"
                             THEN [weights EXCEPT ![model] = call.layers]
                             ELSE weights
               /\ wRet' = [outcome |-> call.outcome, op |-> "load",
                           saved |-> wRet.saved, model |-> model]
    /\ UNCHANGED <<buffer, tfVars, fieldVars, seqVars, gpuVars, schemaVars>>

InitWeights ==
    /\ TfIdle
    /\ FieldIdle
    /\ SeqIdle
    /\ GpusIdle
    /\ SchemaIdle
    /\ weights \in [Models -> WeightValues]
    /\ buffer = None
    /\ wRet = NoWeightCall
NextWeights == CallSaveWeightsToBuffer \/ CallLoadWeightsFromBuffer
SpecWeights == InitWeights /\ [][NextWeights]_vars

\* the files model.load_weights opens for the path the load path passes to it
FilesRead == {IndexFile(load_weights_path("tmpdir"))[2], DataFile(load_weights_path("tmpdir"))[2]}

\* C11: a load from the buffer of the last save, into any model of the same
\* architecture, succeeds and leaves that model with exactly the weights the
\* saved model had; the archive in the buffer holds, under the names the load
\* path opens after unzipping, the files the save path wrote.
C11_WeightsRoundTrip ==
    /\ wRet.op = "load"
           => (wRet.outcome = "loaded" /\ wRet.saved = Some(weights[wRet.model]))
    /\ buffer # None
           => /\ FilesRead \subseteq DOMAIN buffer[1]
              /\ wRet.saved # None
              /\ buffer[1][IndexFile(load_weights_path("tmpdir"))[2]] = Architecture
              /\ buffer[1][DataFile(load_weights_path("tmpdir"))[2]] = Flatten(wRet.saved[1])

\* model 2 started with other weights than model 1 and now has those of model 1
C11_Witness ==
    /\ wRet.op = "load"
    /\ wRet.outcome = "loaded"
    /\ wRet.model = 2
    /\ weights[2] = weights[1]
    /\ weights[2] = <<<<1>>, <<0, 1>>>>
    /\ wRet.saved = Some(weights[2])

(***************************************************************************)
(* Tensor helpers (tf_utils.py, lines 33-53).  A 2-D tensor is a sequence  *)
(* of rows of values, a 3-D tensor a sequence of rows of feature vectors.  *)
(* Python and TensorFlow positions count from 0, sequences from 1.         *)
(***************************************************************************)
MaxTime == 5

Abs(x) == IF x < 0 THEN 0 - x ELSE x
Sign(x) == IF x > 0 THEN 1 ELSE IF x < 0 THEN 0 - 1 ELSE 0

RECURSIVE reduce_max(_)
reduce_max(values) ==
    IF Len(values) = 1 THEN values[1]
    ELSE LET rest == reduce_max(Tail(values))
         IN  IF values[1] > rest THEN values[1] ELSE rest

RECURSIVE reduce_sum(_)
reduce_sum(values) ==
    IF values = <<>> THEN 0 ELSE values[1] + reduce_sum(Tail(values))

\* tf.cast(_, tf.int32) of an integral value within the int32 range
cast_int32(x) == x

\* lines 33-37
sequence_length_3D(sequence) ==
    LET used == [b \in 1..Len(sequence) |->
                    [k \in 1..Len(sequence[b]) |->
                        Sign(reduce_max([c \in 1..Len(sequence[b][k]) |->
                                            Abs(sequence[b][k][c])]))]]
    IN  [b \in 1..Len(sequence) |-> cast_int32(reduce_sum(used[b]))]

\* lines 40-44
sequence_length_2D(sequence) ==
    LET used == [b \in 1..Len(sequence) |->
                    [k \in 1..Len(sequence[b]) |-> Sign(Abs(sequence[b][k]))]]
    IN  [b \in 1..Len(sequence) |-> cast_int32(reduce_sum(used[b]))]

\* a mask that also keeps the position equal to the length
sequence_mask_Inclusive(lengths, max_length) ==
    [b \in 1..Len(lengths) |-> [k \in 1..max_length |-> k - 1 <= lengths[b]]]

\* line 49, tf.sequence_mask: position j of row b is kept when j < lengths[b]
sequence_mask(lengths, max_length) ==
    [b \in 1..Len(lengths) |-> [k \in 1..max_length |-> k - 1 < lengths[b]]]

\* tf.where(mask): the positions of the true entries, in row-major order
RECURSIVE where(_, _, _)
where(mask, b, k) ==
    IF b > Len(mask) THEN <<>>
    ELSE IF k > Len(mask[b]) THEN where(mask, b + 1, 1)
    ELSE (IF mask[b][k] THEN << <<b - 1, k - 1>> >> ELSE <<>>) \o where(mask, b, k + 1)

\* lines 48-53: the SparseTensor, or the shape error of tf.boolean_mask
to_sparse(tensor, lengths, max_length) ==
    LET mask == sequence_mask(lengths, max_length)
        indices == where(mask, 1, 1)
        shape == <<Len(tensor), Len(tensor[1])>>
    IN  IF Len(lengths) # Len(tensor) \/ max_length # Len(tensor[1])
        THEN [outcome |-> "ValueError", values |-> <<>>, indices |-> <<>>,
              shape |-> <<>>]
        ELSE [outcome |-> "returned",
              values |-> [p \in 1..Len(indices) |->
                             cast_int32(tensor[indices[p][1] + 1][indices[p][2] + 1])],
              indices |-> indices,
              shape |-> shape]

\* the tensors the calls are drawn from: every row of MaxTime timesteps, alone or
\* followed by a row of three used timesteps and padding
Rows2D == [1..MaxTime -> {0 - 1, 0, 1}]
PaddedRow == [k \in 1..MaxTime |-> IF k <= 3 THEN 1 ELSE 0]
Batches2D == {<<r>> : r \in Rows2D} \cup {<<r, PaddedRow>> : r \in Rows2D}
FeatureVectors == {<<0, 0>>, <<0, 1>>, <<0 - 1, 0>>}
Batches3D == {<<r>> : r \in [1..MaxTime -> FeatureVectors]}
LengthLists(tensor) ==
    {l \in [1..Len(tensor) -> (0 - 1)..(MaxTime + 1)] : Len(tensor) = 2 => l[2] \in {0, 3}}

NoSeqCall ==
    [rank |-> 0, outcome |-> "none", op |-> "none", result |-> <<>>, lengths |-> <<>>,
     max_length |-> 0, tensor |-> <<>>]

\* the arguments of the call to come: a 3-D tensor, or a 2-D tensor with lengths
SeqArguments(call) ==
    \/ \E sequence \in Batches3D :
           call = [NoSeqCall EXCEPT !.tensor = sequence, !.rank = 3]
    \/ \E tensor \in Batches2D, max_length \in {MaxTime - 1, MaxTime} :
           \E lengths \in LengthLists(tensor) :
              call = [NoSeqCall EXCEPT !.lengths = lengths, !.max_length = max_length,
                                       !.tensor = tensor, !.rank = 2]

CallSequenceLength3D ==
    /\ seqRet.outcome = "none"
    /\ seqRet.rank = 3
    /\ seqRet' = [seqRet EXCEPT !.outcome = "returned",
                                !.op = "sequence_length_3D",
                                !.result = sequence_length_3D(seqRet.tensor)]
    /\ UNCHANGED <<tfVars, fieldVars, weightVars, gpuVars, schemaVars>>

CallSequenceLength2D ==
    /\ seqRet.outcome = "none"
    /\ seqRet.rank = 2
    /\ seqRet' = [seqRet EXCEPT !.outcome = "returned",
                                !.op = "sequence_length_2D",
                                !.result = sequence_length_2D(seqRet.tensor)]
    /\ UNCHANGED <<tfVars, fieldVars, weightVars, gpuVars, schemaVars>>

CallToSparse ==
    /\ seqRet.outcome = "none"
    /\ seqRet.rank = 2
    /\ LET call == to_sparse(seqRet.tensor, seqRet.lengths, seqRet.max_length)
       IN  seqRet' = [seqRet EXCEPT !.outcome = call.outcome,
                                    !.op = "to_sparse",
                                    !.result = call]
    /\ UNCHANGED <<tfVars, fieldVars, weightVars, gpuVars, schemaVars>>

InitSeq ==
    /\ TfIdle
    /\ FieldIdle
    /\ WeightsIdle
    /\ GpusIdle
    /\ SchemaIdle
    /\ SeqArguments(seqRet)
NextSeq == CallSequenceLength3D \/ CallSequenceLength2D \/ CallToSparse
SpecSeq == InitSeq /\ [][NextSeq]_vars

\* the used timesteps of a row: non-zero, or a feature vector that is not all zero
Used2D(row) == {k \in 1..Len(row) : row[k] # 0}
Used3D(row) == {k \in 1..Len(row) : \E c \in 1..Len(row[k]) : row[k][c] # 0}

\* the 0-based positions of a tensor that lie before the length of their row
KeptPositions(tensor, lengths) ==
    {<<b - 1, j>> : b \in 1..Len(tensor), j \in 0..(Len(tensor[1]) - 1)}
        \cap {p \in (0..Len(tensor)) \X (0..Len(tensor[1])) : p[2] < lengths[p[1] + 1]}

\* C12: sequence_length_2D returns for each example the number of its non-zero
\* timesteps and sequence_length_3D the number of timesteps whose feature vector
\* is not all zero, which is the sequence length L whenever exactly the first L
\* timesteps are used; a returned to_sparse holds exactly the positions whose
\* index is smaller than the length given for their example, each once and with
\* the value the tensor has there.
C12_LengthsAndSparsePositions ==
    /\ seqRet.op = "sequence_length_2D"
           => \A b \in 1..Len(seqRet.tensor) :
                 /\ seqRet.result[b] = Cardinality(Used2D(seqRet.tensor[b]))
                 /\ \A L \in 0..MaxTime :
                        Used2D(seqRet.tensor[b]) = 1..L => seqRet.result[b] = L
    /\ seqRet.op = "sequence_length_3D"
           => \A b \in 1..Len(seqRet.tensor) :
                 /\ seqRet.result[b] = Cardinality(Used3D(seqRet.tensor[b]))
                 /\ \A L \in 0..MaxTime :
                        Used3D(seqRet.tensor[b]) = 1..L => seqRet.result[b] = L
    /\ (seqRet.op = "to_sparse" /\ seqRet.outcome = "returned")
           => LET sparse == seqRet.result
              IN  /\ {sparse.indices[p] : p \in 1..Len(sparse.indices)}
                         = KeptPositions(seqRet.tensor, seqRet.lengths)
                  /\ Len(sparse.indices)
                         = Cardinality(KeptPositions(seqRet.tensor, seqRet.lengths))
                  /\ \A p \in 1..Len(sparse.indices) :
                         sparse.values[p] =
                             seqRet.tensor[sparse.indices[p][1] + 1][sparse.indices[p][2] + 1]

\* three used timesteps, one of them negative, then padding up to five: length 3
C12_Witness ==
    /\ seqRet.op = "sequence_length_2D"
    /\ seqRet.tensor = << <<1, 0 - 1, 1, 0, 0>> >>
    /\ seqRet.result = <<3>>

(***************************************************************************)
(* GPU enumeration in a worker process (tf_utils.py, lines 128-142).  The  *)
(* multiprocessing Queue keeps the objects put in a buffer of the putting  *)
(* process; a feeder thread of that process writes them to a pipe of       *)
(* bounded capacity, and the process does not exit before the buffer is    *)
(* flushed.  get() in the caller reads a whole message from the pipe.      *)
(***************************************************************************)
MaxCalls == 3

\* line 136: bytes the pipe of a Queue holds before a write blocks
PipeCapacity == 65536

\* the name of physical GPU d, split at its colons
DeviceName(d) == <<"/physical_device", ":", "GPU", ":", Digits[d + 1]>>

\* line 130, name.split(':')[-1]: what follows the last colon
RECURSIVE LastPiece(_, _)
LastPiece(name, cur) ==
    IF name = <<>> THEN cur
    ELSE IF Head(name) = ":" THEN LastPiece(Tail(name), <<>>)
    ELSE LastPiece(Tail(name), Append(cur, Head(name)))

\* lines 129-130
gpu_ids == [d \in 1..gpu_devices |-> LastPiece(DeviceName(d - 1), <<>>)]

\* a message that never fits the pipe in one piece
PickledSize_Huge(obj) == PipeCapacity + 1

\* line 131: bytes of the pickled list of short strings with its length header
PickledSize(obj) == 4 + 16 + reduce_sum([k \in 1..Len(obj) |-> 8 + Len(obj[k])])

PipeBytes == reduce_sum([k \in 1..Len(pipe) |-> PickledSize(pipe[k])])

NoGpusCall == [calls |-> 0, spawned |-> 0, gpus_list |-> None]

\* lines 135-138: a new call makes its own queue and process object
CallGetAvailableGpus ==
    /\ parent_pc \in {"idle", "done"}
    /\ gpusRet.calls < MaxCalls
    /\ parent_pc' = "start"
    /\ worker_pc' = "none"
    /\ mpq' = <<>>
    /\ pipe' = <<>>
    /\ gpusRet' = [gpusRet EXCEPT !.calls = @ + 1, !.gpus_list = None]
    /\ UNCHANGED <<tfVars, fieldVars, weightVars, seqVars, schemaVars>>

\* line 139: the worker process is spawned, the caller goes on
ProcStart ==
    /\ parent_pc = "start"
    /\ parent_pc' = "join"
    /\ worker_pc' = "boot"
    /\ gpusRet' = [gpusRet EXCEPT !.spawned = @ + 1]
    /\ UNCHANGED <<mpq, pipe, tfVars, fieldVars, weightVars, seqVars, schemaVars>>

\* line 140: join is called; it returns at once when the worker has exited
\* already and blocks otherwise
ProcJoin ==
    /\ parent_pc = "join"
    /\ parent_pc' = IF worker_pc = "exited" THEN "get" ELSE "joining"
    /\ UNCHANGED <<worker_pc, mpq, pipe, gpusRet, tfVars, fieldVars, weightVars, seqVars,
                   schemaVars>>

\* line 140: the blocked join returns once the worker has exited
ProcJoinReturn ==
    /\ parent_pc = "joining"
    /\ worker_pc = "exited"
    /\ parent_pc' = "get"
    /\ UNCHANGED <<worker_pc, mpq, pipe, gpusRet, tfVars, fieldVars, weightVars, seqVars,
                   schemaVars>>

\* lines 141-142: get returns once a message is in the pipe
QueueGet ==
    /\ parent_pc = "get"
    /\ pipe # <<>>
    /\ parent_pc' = "done"
    /\ pipe' = Tail(pipe)
    /\ gpusRet' = [gpusRet EXCEPT !.gpus_list = Some(Head(pipe))]
    /\ UNCHANGED <<worker_pc, mpq, tfVars, fieldVars, weightVars, seqVars, schemaVars>>

\* the spawned interpreter starts and reaches the target function
WorkerBoot ==
    /\ worker_pc = "boot"
    /\ worker_pc' = "put"
    /\ UNCHANGED <<parent_pc, mpq, pipe, gpusRet, tfVars, fieldVars, weightVars, seqVars,
                   schemaVars>>

\* lines 129-131: the ids are put into the buffer of the queue
WorkerPut ==
    /\ worker_pc = "put"
    /\ mpq' = Append(mpq, gpu_ids)
    /\ worker_pc' = "return"
    /\ UNCHANGED <<parent_pc, pipe, gpusRet, tfVars, fieldVars, weightVars, seqVars,
                   schemaVars>>

\* the target function returns and the process begins to shut down
WorkerReturn ==
    /\ worker_pc = "return"
    /\ worker_pc' = "finalize"
    /\ UNCHANGED <<parent_pc, mpq, pipe, gpusRet, tfVars, fieldVars, weightVars, seqVars,
                   schemaVars>>

\* the feeder thread of the worker writes a buffered object once the pipe has
\* room for it
QueueFeed ==
    /\ worker_pc \in {"return", "finalize"}
    /\ mpq # <<>>
    /\ PipeBytes + PickledSize(Head(mpq)) <= PipeCapacity
    /\ pipe' = Append(pipe, Head(mpq))
    /\ mpq' = Tail(mpq)
    /\ UNCHANGED <<parent_pc, worker_pc, gpusRet, tfVars, fieldVars, weightVars, seqVars,
                   schemaVars>>

\* the process exits after its feeder thread has flushed the buffer
WorkerExit ==
    /\ worker_pc = "finalize"
    /\ mpq = <<>>
    /\ worker_pc' = "exited"
    /\ UNCHANGED <<parent_pc, mpq, pipe, gpusRet, tfVars, fieldVars, weightVars, seqVars,
                   schemaVars>>

InitGpus ==
    /\ TfInit
    /\ FieldIdle
    /\ WeightsIdle
    /\ SeqIdle
    /\ SchemaIdle
    /\ parent_pc = "idle"
    /\ worker_pc = "none"
    /\ mpq = <<>>
    /\ pipe = <<>>
    /\ gpusRet = NoGpusCall
NextGpus ==
    \/ CallGetAvailableGpus
    \/ ProcStart
    \/ ProcJoin
    \/ ProcJoinReturn
    \/ QueueGet
    \/ WorkerBoot
    \/ WorkerPut
    \/ WorkerReturn
    \/ QueueFeed
    \/ WorkerExit
\* both processes and the feeder thread keep being scheduled
SpecGpus ==
    /\ InitGpus
    /\ [][NextGpus]_vars
    /\ WF_vars(ProcStart) /\ WF_vars(ProcJoin) /\ WF_vars(ProcJoinReturn)
    /\ WF_vars(QueueGet)
    /\ WF_vars(WorkerBoot) /\ WF_vars(WorkerPut) /\ WF_vars(WorkerReturn)
    /\ WF_vars(QueueFeed) /\ WF_vars(WorkerExit)

\* C13: every call spawns exactly one worker, passes join only after the worker
\* has exited, returns the id list of the physical GPUs that the worker put on
\* the queue, and under every interleaving of the worker's put, the feeder's
\* write, the worker's exit, the join and the get, a call that was started
\* returns.
C13_CallReturnsWorkerList ==
    /\ [](parent_pc \in {"join", "joining", "get", "done"}
            => gpusRet.spawned = gpusRet.calls)
    /\ [](parent_pc \in {"get", "done"} => worker_pc = "exited")
    /\ [](parent_pc = "done"
            => /\ gpusRet.gpus_list # None
               /\ Len(gpusRet.gpus_list[1]) = gpu_devices
               /\ \A d \in 1..gpu_devices : gpusRet.gpus_list[1][d] = <<Digits[d]>>)
    /\ (parent_pc \in {"start", "join", "joining", "get"}) ~> (parent_pc = "done")

\* a second call has returned the ids of both GPUs
C13_Witness ==
    /\ parent_pc = "done"
    /\ gpusRet.calls = 2
    /\ gpusRet.spawned = 2
    /\ gpusRet.gpus_list = Some(<< <<"0">>, <<"1">> >>)
    /\ worker_pc = "exited"

(***************************************************************************)
(* Schema documentation (marshmallow_schema_utils.py, lines 80-232).  A    *)
(* str is the sequence of its tokens: words, ".", " ", the newline "\n"    *)
(* and "(default:".  A dict is a function from its keys.                   *)
(***************************************************************************)
MaxParents == 2

Words == {"own", "parent", "torch", "class"}
\* str.capitalize() of a word
capitalize(word) ==
    CASE word = "own" -> "Own"
      [] word = "parent" -> "Parent"
      [] word = "torch" -> "Torch"
      [] word = "class" -> "Class"
      [] OTHER -> word

\* str.isspace()
isspace(dstring) ==
    dstring # <<>> /\ \A k \in 1..Len(dstring) : dstring[k] \in {" ", "\n"}

\* line 89, re.sub(r"\.(?! )", ". ", dstring)
RECURSIVE SpaceAfterPeriods(_)
SpaceAfterPeriods(dstring) ==
    IF dstring = <<>> THEN <<>>
    ELSE IF Head(dstring) = "." /\ (Len(dstring) = 1 \/ dstring[2] # " ")
    THEN <<".", " ">> \o SpaceAfterPeriods(Tail(dstring))
    ELSE <<Head(dstring)>> \o SpaceAfterPeriods(Tail(dstring))

\* lines 91 and 93, re.sub("c+", " ", dstring): every run of c becomes one blank
RECURSIVE ReplaceRuns(_, _)
ReplaceRuns(dstring, c) ==
    IF dstring = <<>> THEN <<>>
    ELSE IF Head(dstring) # c THEN <<Head(dstring)>> \o ReplaceRuns(Tail(dstring), c)
    ELSE IF Len(dstring) > 1 /\ dstring[2] = c THEN ReplaceRuns(Tail(dstring), c)
    ELSE <<" ">> \o ReplaceRuns(Tail(dstring), c)

\* line 99: the first word of the string and of every sentence is capitalized
CapitalizeSentences(dstring) ==
    [k \in 1..Len(dstring) |->
        IF /\ dstring[k] \in Words
           /\ \/ k = 1
              \/ k >= 3 /\ dstring[k - 1] = " " /\ dstring[k - 2] \in {".", "?", "!"}
        THEN capitalize(dstring[k])
        ELSE dstring[k]]

\* lines 84-100
cleanup_python_comment(dstring) ==
    IF dstring = <<>> \/ isspace(dstring) THEN <<>>
    ELSE LET spaced == ReplaceRuns(ReplaceRuns(SpaceAfterPeriods(dstring), "\n"), " ")
             stripped == strip(spaced)
             closed == IF stripped[Len(stripped)] # "." THEN Append(stripped, ".")
                       ELSE stripped
         IN  CapitalizeSentences(closed)

\* the literal "(default: "
DefaultMark == <<"(default:", " ">>

\* str.split("(default: "): the pieces between the marks
RECURSIVE split_default(_, _)
split_default(dstring, cur) ==
    IF dstring = <<>> THEN <<cur>>
    ELSE IF Len(dstring) >= 2 /\ SubSeq(dstring, 1, 2) = DefaultMark
    THEN <<cur>> \o split_default(SubSeq(dstring, 3, Len(dstring)), <<>>)
    ELSE split_default(Tail(dstring), Append(cur, Head(dstring)))

\* line 130: the dump of marshmallow-jsonschema for a class whose Meta excludes
\* unknown properties (line 59); no property has a description yet
schema_dump0(props) ==
    [additionalProperties |-> FALSE, description |-> None,
     properties |-> [prop \in props |-> None]]

\* lines 149-156: later parents override earlier ones, the class overrides all
RECURSIVE merge_parents(_)
merge_parents(parsed_parents) ==
    IF parsed_parents = <<>> THEN <<>>
    ELSE parsed_parents[Len(parsed_parents)]
             @@ merge_parents(SubSeq(parsed_parents, 1, Len(parsed_parents) - 1))
parsed_attrs(cls) == cls.attrs @@ merge_parents(cls.parents)

\* lines 208-213
TorchFallback(desc, parsed_torch, prop) ==
    /\ desc = <<>>
    /\ parsed_torch # None
    /\ prop \in DOMAIN parsed_torch[1]
    /\ (parsed_torch[1][prop] # None \/ parsed_torch[1][prop] # Some(<<>>))

\* lines 183-226 for one property found in parsed_attrs
describe(attr_docstring, parsed_torch, prop) ==
    LET parsed_docstring == IF attr_docstring = None THEN <<>> ELSE attr_docstring[1]
        docstring_split == split_default(parsed_docstring, <<>>)
        own_default == IF Len(docstring_split) = 2 THEN Some(docstring_split[2]) ELSE None
        parsed_desc == docstring_split[1]
    IN  IF TorchFallback(parsed_desc, parsed_torch, prop)
        THEN IF parsed_torch[1][prop] = None
             THEN \* line 215: None has no split
                  [outcome |-> "AttributeError", description |-> None]
             ELSE LET desc_split == split_default(parsed_torch[1][prop][1], <<>>)
                      parsed_default ==
                          IF own_default = None /\ Len(desc_split) = 2
                          THEN Some(desc_split[2]) ELSE own_default
                      desc == cleanup_python_comment(desc_split[1])
                  IN  [outcome |-> "described",
                       description |-> Some(cleanup_python_comment(
                           IF parsed_default # None
                           THEN desc \o DefaultMark \o parsed_default[1] ELSE desc))]
        ELSE [outcome |-> "described",
              description |-> Some(cleanup_python_comment(
                  IF own_default # None
                  THEN parsed_desc \o DefaultMark \o own_default[1] ELSE parsed_desc))]

\* a marking that is only made for a documented class
accept_unknown_Documented(cls, schema) ==
    IF cls.doc = None THEN schema ELSE [schema EXCEPT !.additionalProperties = TRUE]

\* line 229
accept_unknown(cls, schema) == [schema EXCEPT !.additionalProperties = TRUE]

\* lines 121-230
generate_extra_json_schema_props(cls) ==
    LET schema_dump == schema_dump0(cls.props)
        attrs == parsed_attrs(cls)
        described == [prop \in cls.props \cap DOMAIN attrs |->
                         describe(attrs[prop], cls.optimizer_class, prop)]
        documented ==
            [schema_dump EXCEPT
                !.description = IF cls.docstring # None
                                THEN Some(cleanup_python_comment(cls.docstring[1]))
                                ELSE @,
                !.properties = [prop \in cls.props |->
                                   IF prop \in DOMAIN described
                                   THEN described[prop].description
                                   ELSE @[prop]]]
    IN  IF cls.doc = None
        THEN [outcome |-> "returned", schema |-> Some(accept_unknown(cls, schema_dump))]
        ELSE IF \E prop \in DOMAIN described : described[prop].outcome = "AttributeError"
        THEN [outcome |-> "AttributeError", schema |-> None]
        ELSE [outcome |-> "returned", schema |-> Some(accept_unknown(cls, documented))]

\* the classes the calls are drawn from: one schema property, lr
AttrDocstrings ==
    {None, Some(<<>>), Some(<<" ">>), Some(<<"own">>),
     Some(<<"own", " ", "(default:", " ", "3)">>), Some(<<"(default:", " ", "3)">>)}
OwnAttrs == {<<>>} \cup {"lr" :> doc : doc \in AttrDocstrings}
ParentAttrs == {<<>>, "lr" :> Some(<<>>), "lr" :> Some(<<"parent", "\n", "class">>)}
TorchDescriptions ==
    {None, Some(<<>>), Some(<<"torch">>),
     Some(<<"torch", ".", "(default:", " ", "5)">>)}
OptimizerClasses ==
    {None, Some(<<>>)} \cup {Some("lr" :> description) : description \in TorchDescriptions}
ClassDocs == {None, Some(<<"class", " ", " ", "class">>)}
Classes ==
    {[props |-> {"lr"}, attrs |-> attrs, parents |-> parents, doc |-> doc,
      optimizer_class |-> optimizer_class, docstring |-> docstring] :
        doc \in ClassDocs, docstring \in ClassDocs, attrs \in OwnAttrs,
        parents \in ListsUpTo(ParentAttrs, MaxParents),
        optimizer_class \in OptimizerClasses}

CallGetCustomSchema ==
    /\ schemaRet.outcome = "none"
    /\ LET call == generate_extra_json_schema_props(schemaRet.cls)
       IN  schemaRet' = [schemaRet EXCEPT !.outcome = call.outcome,
                                          !.schema = call.schema]
    /\ UNCHANGED <<tfVars, fieldVars, weightVars, seqVars, gpuVars>>

InitSchema ==
    /\ TfIdle
    /\ FieldIdle
    /\ WeightsIdle
    /\ SeqIdle
    /\ GpusIdle
    /\ schemaRet \in {[outcome |-> "none", cls |-> cls, schema |-> None] : cls \in Classes}
NextSchema == CallGetCustomSchema
SpecSchema == InitSchema /\ [][NextSchema]_vars

\* C14: a schema that is returned has additionalProperties True, for a class
\* with and without a docstring and whatever its properties were described with.
C14_AdditionalPropertiesTrue ==
    schemaRet.outcome = "returned" => schemaRet.schema[1].additionalProperties = TRUE

\* a class without a docstring: no description is looked up, the mark is set
C14_Witness ==
    /\ schemaRet.outcome = "returned"
    /\ schemaRet.cls.doc = None
    /\ schemaRet.cls.attrs # <<>>
    /\ schemaRet.schema[1].properties["lr"] = None
    /\ schemaRet.schema[1].additionalProperties = TRUE

\* the description part of the Ludwig docstring found for a property
LudwigDesc(cls, prop) ==
    LET docstring == parsed_attrs(cls)[prop]
    IN  split_default(IF docstring = None THEN <<>> ELSE docstring[1], <<>>)[1]

\* the framework description of a property: None when there is no linked
\* optimizer class, no such parameter or no description
TorchDesc(cls, prop) ==
    IF cls.optimizer_class = None THEN None
    ELSE IF prop \notin DOMAIN cls.optimizer_class[1] THEN None
    ELSE cls.optimizer_class[1][prop]

Mentions(description, word) ==
    \E k \in 1..Len(description) : description[k] \in {word, capitalize(word)}

\* C16 as stated: for a documented class and a property with a Ludwig attribute
\* entry the call never raises; a non-empty Ludwig description is the one used;
\* the framework description is used exactly when the Ludwig description is
\* empty and the framework description is present and non-empty; a missing or
\* empty framework description leaves the description without framework text.
C16_FirstNonEmptySourceNeverRaises ==
    (schemaRet.outcome # "none" /\ schemaRet.cls.doc # None)
        => \A prop \in schemaRet.cls.props \cap DOMAIN parsed_attrs(schemaRet.cls) :
              LET ludwig == LudwigDesc(schemaRet.cls, prop)
                  torch == TorchDesc(schemaRet.cls, prop)
                  fallback == ludwig = <<>> /\ torch # None /\ torch # Some(<<>>)
              IN  /\ schemaRet.outcome = "returned"
                  /\ schemaRet.schema[1].properties[prop] # None
                  /\ Mentions(schemaRet.schema[1].properties[prop][1], "torch") <=> fallback
                  /\ (ludwig # <<>> /\ ~isspace(ludwig))
                         => \/ Mentions(schemaRet.schema[1].properties[prop][1], "own")
                            \/ Mentions(schemaRet.schema[1].properties[prop][1], "parent")

====
